---------------------------- MODULE Spec2Model ----------------------------
(***************************************************************************)
(* A model of ollama-chat-backend/src/main.rs: one inbound call to either  *)
(* bridge (the buffered handler `chat`, the streaming handler              *)
(* `chat_stream` with its relay task and the consumer of its event         *)
(* stream).                                                                *)
(*                                                                         *)
(* Texts (Rust String, Bytes) are sequences of byte values 0..255; a       *)
(* String is the sequence of its UTF-8 bytes.                              *)
(***************************************************************************)
EXTENDS Integers, Sequences, FiniteSets, TLC

(***************************************************************************)
(* Bounds of the model.                                                    *)
(***************************************************************************)
\* The upstream body of a streaming call has at most MaxChunks chunks.
MaxChunks == 18
\* The first MaxFree chunks are any chunks of ChunkPool; the later ones
\* follow ChunkCycle.
MaxFree == 1
\* The arrays of JsonPool have at most MaxArrayLen elements.
MaxArrayLen == 2
\* The model tokens of ModelTokens have at most MaxTokenLen characters.
MaxTokenLen == 4

(***************************************************************************)
(* Program constants.                                                      *)
(***************************************************************************)
\* mpsc::channel(16), main.rs:200
ChannelCap == 16
\* mpsc::channel(1), main.rs:182 and main.rs:194
ErrChannelCap == 1

(***************************************************************************)
(* Text literals of the source.                                            *)
(***************************************************************************)
\* Mutation of DEFAULT_MODEL: the default is written with a dot,
\* "llama3.8b".
DEFAULT_MODEL_dotted == <<108, 108, 97, 109, 97, 51, 46, 56, 98>>
\* "llama3:8b"
DEFAULT_MODEL == <<108, 108, 97, 109, 97, 51, 58, 56, 98>>
\* "llama3.1"
ALIAS_MODEL == <<108, 108, 97, 109, 97, 51, 46, 49>>
\* '.'
DOT == 46
\* ':'
COLON == 58
\* "Error contacting Ollama API: "
ERR_CONTACT == <<69, 114, 114, 111, 114, 32, 99, 111, 110, 116, 97, 99, 116,
                 105, 110, 103, 32, 79, 108, 108, 97, 109, 97, 32, 65, 80,
                 73, 58, 32>>
\* "Failed to read response body: "
ERR_READ_BODY == <<70, 97, 105, 108, 101, 100, 32, 116, 111, 32, 114, 101, 97,
                   100, 32, 114, 101, 115, 112, 111, 110, 115, 101, 32, 98,
                   111, 100, 121, 58, 32>>
\* "unknown error from ollama"
UNKNOWN_ERROR == <<117, 110, 107, 110, 111, 119, 110, 32, 101, 114, 114, 111,
                   114, 32, 102, 114, 111, 109, 32, 111, 108, 108, 97, 109,
                   97>>
\* "__ERR__:"
ERR_MARKER == <<95, 95, 69, 82, 82, 95, 95, 58>>
\* "content"
KEY_CONTENT == <<99, 111, 110, 116, 101, 110, 116>>
\* "message"
KEY_MESSAGE == <<109, 101, 115, 115, 97, 103, 101>>

(***************************************************************************)
(* Helpers on sequences.                                                   *)
(***************************************************************************)
IsPrefix(s, t) == Len(s) <= Len(t) /\ SubSeq(t, 1, Len(s)) = s

Contains(s, b) == \E i \in 1..Len(s) : s[i] = b

\* Option<T>: None and Some(x).
None == [some |-> FALSE, v |-> <<>>]
Some(x) == [some |-> TRUE, v |-> x]
NoneBool == [some |-> FALSE, v |-> FALSE]
SomeBool(b) == [some |-> TRUE, v |-> b]

(***************************************************************************)
(* normalize_model, the copy inside `chat` and the copy inside             *)
(* `chat_stream`.                                                          *)
(***************************************************************************)
\* str::replace('.', ":")
ReplaceDots(m) == [i \in 1..Len(m) |-> IF m[i] = DOT THEN COLON ELSE m[i]]

chat_normalize_model(opt) ==
    IF opt.some
    THEN IF opt.v = ALIAS_MODEL THEN DEFAULT_MODEL
         ELSE IF Contains(opt.v, DOT) /\ ~Contains(opt.v, COLON)
              THEN ReplaceDots(opt.v)
              ELSE opt.v
    ELSE DEFAULT_MODEL

\* Mutation of chat_stream_normalize_model: the copy lacks the alias.
chat_stream_normalize_model_noalias(opt) ==
    IF opt.some
    THEN IF Contains(opt.v, DOT) /\ ~Contains(opt.v, COLON)
         THEN ReplaceDots(opt.v)
         ELSE opt.v
    ELSE DEFAULT_MODEL

chat_stream_normalize_model(opt) ==
    IF opt.some
    THEN IF opt.v = ALIAS_MODEL THEN DEFAULT_MODEL
         ELSE IF Contains(opt.v, DOT) /\ ~Contains(opt.v, COLON)
              THEN ReplaceDots(opt.v)
              ELSE opt.v
    ELSE DEFAULT_MODEL

(***************************************************************************)
(* String::from_utf8: the bytes when they are well-formed UTF-8, an error  *)
(* otherwise.                                                              *)
(***************************************************************************)
IsCont(b) == b >= 128 /\ b <= 191

\* The length of the well-formed UTF-8 sequence that starts at s[i], 0 when
\* there is none.
Utf8Width(s, i) ==
    LET b == s[i]
        n == Len(s)
        c1 == IF i + 1 <= n THEN s[i + 1] ELSE 0
        c2 == IF i + 2 <= n THEN s[i + 2] ELSE 0
        c3 == IF i + 3 <= n THEN s[i + 3] ELSE 0
    IN  IF b <= 127 THEN 1
        ELSE IF b >= 194 /\ b <= 223
             THEN IF IsCont(c1) THEN 2 ELSE 0
        ELSE IF b = 224
             THEN IF c1 >= 160 /\ c1 <= 191 /\ IsCont(c2) THEN 3 ELSE 0
        ELSE IF (b >= 225 /\ b <= 236) \/ b = 238 \/ b = 239
             THEN IF IsCont(c1) /\ IsCont(c2) THEN 3 ELSE 0
        ELSE IF b = 237
             THEN IF c1 >= 128 /\ c1 <= 159 /\ IsCont(c2) THEN 3 ELSE 0
        ELSE IF b = 240
             THEN IF c1 >= 144 /\ c1 <= 191 /\ IsCont(c2) /\ IsCont(c3)
                  THEN 4 ELSE 0
        ELSE IF b >= 241 /\ b <= 243
             THEN IF IsCont(c1) /\ IsCont(c2) /\ IsCont(c3) THEN 4 ELSE 0
        ELSE IF b = 244
             THEN IF c1 >= 128 /\ c1 <= 143 /\ IsCont(c2) /\ IsCont(c3)
                  THEN 4 ELSE 0
        ELSE 0

RECURSIVE ValidUtf8From(_, _)
ValidUtf8From(s, i) ==
    IF i > Len(s) THEN TRUE
    ELSE LET w == Utf8Width(s, i)
         IN  IF w = 0 THEN FALSE ELSE ValidUtf8From(s, i + w)

from_utf8(bytes) ==
    IF ValidUtf8From(bytes, 1) THEN [ok |-> TRUE, v |-> bytes]
                               ELSE [ok |-> FALSE, v |-> <<>>]

\* Mutation of DecodeChunk: a chunk that is not UTF-8 becomes U+FFFD.
DecodeChunk_lossy(bytes) ==
    LET r == from_utf8(bytes) IN IF r.ok THEN r.v ELSE <<239, 191, 189>>

\* main.rs:207-210: the chunk as text, "" when it is not UTF-8.
DecodeChunk(bytes) ==
    LET r == from_utf8(bytes) IN IF r.ok THEN r.v ELSE <<>>

\* Event::default().data(s)
Event(s) == [data |-> s]

\* Mutation of ErrEvent: the marker is left out.
ErrEvent_unmarked(e) == Event(e)

\* format!("__ERR__:{}", e)
ErrEvent(e) == Event(ERR_MARKER \o e)

\* format!("Error contacting Ollama API: {}", e)
ContactError(e) == ERR_CONTACT \o e

\* Mutation of ReadBodyError: the text of the send failure is used.
ReadBodyError_asContact(e) == ERR_CONTACT \o e

\* format!("Failed to read response body: {}", e)
ReadBodyError(e) == ERR_READ_BODY \o e

(***************************************************************************)
(* serde_json::Value.  An object's entries are kept in the order in which  *)
(* serde_json's Map iterates them: by key, in byte order, each key once    *)
(* (the crate's default Map, a BTreeMap<String, Value>).                   *)
(***************************************************************************)
JNull == [t |-> "null", v |-> <<>>]
JBool(b) == [t |-> "bool", v |-> IF b THEN <<1>> ELSE <<0>>]
\* A number is kept as its lexeme.
JNum(lexeme) == [t |-> "num", v |-> lexeme]
JStr(s) == [t |-> "str", v |-> s]
JArr(items) == [t |-> "arr", v |-> items]
\* entries: a sequence of <<key, value>>.
JObj(entries) == [t |-> "obj", v |-> entries]

\* Map::get
MapGet(entries, k) ==
    IF \E i \in 1..Len(entries) : entries[i][1] = k
    THEN Some(entries[CHOOSE i \in 1..Len(entries) : entries[i][1] = k][2])
    ELSE None

\* Value::get with a string index: a member of an object, None on any
\* other value.
ValueGet(val, k) == IF val.t = "obj" THEN MapGet(val.v, k) ELSE None

\* String's Ord: byte-wise lexicographic.
LessBytes(a, b) ==
    \E i \in 1..(Len(b)) :
        /\ i <= Len(a) + 1
        /\ \A j \in 1..(i - 1) : a[j] = b[j]
        /\ (i = Len(a) + 1 \/ a[i] < b[i])

\* Map::insert: the value of an existing key is replaced, a new key takes
\* its place in key order.
MapInsert(entries, k, val) ==
    IF \E i \in 1..Len(entries) : entries[i][1] = k
    THEN [i \in 1..Len(entries) |->
             IF entries[i][1] = k THEN <<k, val>> ELSE entries[i]]
    ELSE LET below == Cardinality({i \in 1..Len(entries) :
                                      LessBytes(entries[i][1], k)})
         IN  SubSeq(entries, 1, below) \o << <<k, val>> >>
             \o SubSeq(entries, below + 1, Len(entries))

(***************************************************************************)
(* extract_content, main.rs:113-142.                                       *)
(***************************************************************************)
RECURSIVE extract_content(_)
RECURSIVE ExtractFirst(_, _)

\* Mutation of ExtractFirst: the last result that is Some.
ExtractFirst_last(vals, i) ==
    LET hits == {j \in i..Len(vals) : extract_content(vals[j]).some}
    IN  IF hits = {} THEN None
        ELSE extract_content(vals[CHOOSE j \in hits : \A h \in hits : h <= j])

\* The loops of main.rs:125-129 and main.rs:133-137 over vals[i..]: the
\* first result that is Some.
ExtractFirst(vals, i) ==
    IF i > Len(vals) THEN None
    ELSE LET hit == extract_content(vals[i])
         IN  IF hit.some THEN hit ELSE ExtractFirst(vals, i + 1)

\* The values of an object's entries, in the order of map.iter().
MapValues(entries) == [i \in 1..Len(entries) |-> entries[i][2]]

\* Mutation of extract_content: a string leaf is itself a match.
extract_content_leaf(val) ==
    IF val.t = "str" THEN Some(val.v)
    ELSE IF val.t = "obj"
         THEN LET c == MapGet(val.v, KEY_CONTENT)
                  msg == MapGet(val.v, KEY_MESSAGE)
                  mc == IF msg.some THEN ValueGet(msg.v, KEY_CONTENT) ELSE None
              IN  IF c.some /\ c.v.t = "str" THEN Some(c.v.v)
                  ELSE IF mc.some /\ mc.v.t = "str" THEN Some(mc.v.v)
                  ELSE ExtractFirst(MapValues(val.v), 1)
    ELSE IF val.t = "arr" THEN ExtractFirst(val.v, 1)
    ELSE None

\* Mutation of ExtractObject: "message" is looked at before "content".
ExtractObject_messageFirst(map) ==
    LET c == MapGet(map, KEY_CONTENT)
        msg == MapGet(map, KEY_MESSAGE)
        mc == IF msg.some THEN ValueGet(msg.v, KEY_CONTENT) ELSE None
    IN  IF mc.some /\ mc.v.t = "str" THEN Some(mc.v.v)
        ELSE IF c.some /\ c.v.t = "str" THEN Some(c.v.v)
        ELSE ExtractFirst(MapValues(map), 1)

\* main.rs:116-131, the Value::Object arm.
ExtractObject(map) ==
    LET c == MapGet(map, KEY_CONTENT)
        msg == MapGet(map, KEY_MESSAGE)
        mc == IF msg.some THEN ValueGet(msg.v, KEY_CONTENT) ELSE None
    IN  IF c.some /\ c.v.t = "str" THEN Some(c.v.v)
        ELSE IF mc.some /\ mc.v.t = "str" THEN Some(mc.v.v)
        ELSE ExtractFirst(MapValues(map), 1)

extract_content(val) ==
    IF val.t = "str" THEN None
    ELSE IF val.t = "obj" THEN ExtractObject(val.v)
    ELSE IF val.t = "arr" THEN ExtractFirst(val.v, 1)
    ELSE None

(***************************************************************************)
(* serde_json::from_str::<Value>, main.rs:104: the JSON grammar of RFC     *)
(* 8259 over a text, with nothing but whitespace after the value, as the   *)
(* crate parses it with its default features: arrays and objects nest less *)
(* than RecursionLimit deep, and a number that is no integer is taken as   *)
(* significand * 10^exponent, an f64 that has to be finite.                *)
(***************************************************************************)
\* Deserializer::remaining_depth at the start.
RecursionLimit == 128
\* u64::MAX, in decimal digits.
U64_MAX == <<1, 8, 4, 4, 6, 7, 4, 4, 0, 7, 3, 7, 0, 9, 5, 5, 1, 6, 1, 5>>
\* i32::MAX
I32_MAX == 2147483647
\* The largest exponent of the table POW10 (1e0 .. 1e308).
POW10_MAX == 308
IsWs(b) == b = 32 \/ b = 9 \/ b = 10 \/ b = 13
IsDigit(b) == b >= 48 /\ b <= 57
IsHex(b) == IsDigit(b) \/ (b >= 97 /\ b <= 102) \/ (b >= 65 /\ b <= 70)
HexVal(b) == IF IsDigit(b) THEN b - 48
             ELSE IF b >= 97 THEN b - 87 ELSE b - 55

\* The first position from i on that holds no whitespace (Len(s) + 1 when
\* there is none).
SkipWs(s, i) ==
    CHOOSE j \in i..(Len(s) + 1) :
        /\ \A k \in i..(j - 1) : IsWs(s[k])
        /\ (j = Len(s) + 1 \/ ~IsWs(s[j]))

\* The first position from i on that holds no digit.
DigitsEnd(s, i) ==
    CHOOSE j \in i..(Len(s) + 1) :
        /\ \A k \in i..(j - 1) : IsDigit(s[k])
        /\ (j = Len(s) + 1 \/ ~IsDigit(s[j]))

\* A parse result: the value and the position after it.
PErr == [ok |-> FALSE, v |-> JNull, i |-> 0]
POk(val, i) == [ok |-> TRUE, v |-> val, i |-> i]
\* The result of parsing a string: its text and the position after it.
SErr == [ok |-> FALSE, s |-> <<>>, i |-> 0]

\* char::encode_utf8
EncodeUtf8(cp) ==
    IF cp < 128 THEN <<cp>>
    ELSE IF cp < 2048 THEN <<192 + (cp \div 64), 128 + (cp % 64)>>
    ELSE IF cp < 65536
         THEN <<224 + (cp \div 4096), 128 + ((cp \div 64) % 64),
                128 + (cp % 64)>>
    ELSE <<240 + (cp \div 262144), 128 + ((cp \div 4096) % 64),
           128 + ((cp \div 64) % 64), 128 + (cp % 64)>>

\* Four hex digits at s[i..i+3]: their value, or -1.
Hex4(s, i) ==
    IF i + 3 <= Len(s) /\ \A k \in i..(i + 3) : IsHex(s[k])
    THEN HexVal(s[i]) * 4096 + HexVal(s[i + 1]) * 256
         + HexVal(s[i + 2]) * 16 + HexVal(s[i + 3])
    ELSE 0 - 1

\* The byte a one-letter escape stands for, or -1.
Unescape(e) ==
    IF e = 34 \/ e = 92 \/ e = 47 THEN e
    ELSE IF e = 98 THEN 8
    ELSE IF e = 102 THEN 12
    ELSE IF e = 110 THEN 10
    ELSE IF e = 114 THEN 13
    ELSE IF e = 116 THEN 9
    ELSE 0 - 1

RECURSIVE ParseStrBody(_, _, _)
\* The rest of a string from s[i] on, its opening quote read; acc is the
\* text so far.
ParseStrBody(s, i, acc) ==
    IF i > Len(s) THEN SErr
    ELSE IF s[i] = 34 THEN [ok |-> TRUE, s |-> acc, i |-> i + 1]
    ELSE IF s[i] < 32 THEN SErr
    ELSE IF s[i] # 92 THEN ParseStrBody(s, i + 1, Append(acc, s[i]))
    ELSE IF i + 1 > Len(s) THEN SErr
    ELSE IF s[i + 1] # 117
         THEN IF Unescape(s[i + 1]) < 0 THEN SErr
              ELSE ParseStrBody(s, i + 2, Append(acc, Unescape(s[i + 1])))
    ELSE LET hi == Hex4(s, i + 2)
         IN  IF hi < 0 THEN SErr
             ELSE IF hi >= 56320 /\ hi <= 57343 THEN SErr
             ELSE IF hi < 55296 \/ hi > 57343
                  THEN ParseStrBody(s, i + 6, acc \o EncodeUtf8(hi))
             ELSE \* a leading surrogate: \uXXXX of a trailing one follows
                  IF ~(i + 7 <= Len(s) /\ s[i + 6] = 92 /\ s[i + 7] = 117)
                  THEN SErr
                  ELSE LET lo == Hex4(s, i + 8)
                       IN  IF lo < 56320 \/ lo > 57343 THEN SErr
                           ELSE ParseStrBody(s, i + 12, acc \o EncodeUtf8(
                                    65536 + (hi - 55296) * 1024
                                    + (lo - 56320)))

\* Numbers in decimal digits, most significant first, without leading
\* zeros (zero is the empty sequence): a < b.
DigitsLess(a, b) ==
    \/ Len(a) < Len(b)
    \/ /\ Len(a) = Len(b)
       /\ \E k \in 1..Len(a) :
              /\ a[k] < b[k]
              /\ \A j \in 1..(k - 1) : a[j] = b[j]

\* significand * 10 + digit
Times10Plus(sig, d) == IF sig = <<>> /\ d = 0 THEN <<>> ELSE Append(sig, d)

\* !overflow!(significand * 10 + digit, u64::MAX), for the result.
FitsU64(ds) == ~DigitsLess(U64_MAX, ds)

\* The least u64 whose f64 times the f64 1e<e> of POW10 is infinite, for
\* the exponents e up to POW10_MAX for which there is one (289 .. 308).
SigLimit(e) ==
    IF e = 289 THEN <<1, 7, 9, 7, 6, 9, 3, 1, 3, 4, 8, 6, 2, 3, 1, 5, 6, 2, 2, 5>>
    ELSE IF e = 290 THEN <<1, 7, 9, 7, 6, 9, 3, 1, 3, 4, 8, 6, 2, 3, 1, 5, 6, 4, 9>>
    ELSE IF e = 291 THEN <<1, 7, 9, 7, 6, 9, 3, 1, 3, 4, 8, 6, 2, 3, 1, 6, 0, 0>>
    ELSE IF e = 292 THEN <<1, 7, 9, 7, 6, 9, 3, 1, 3, 4, 8, 6, 2, 3, 1, 5, 8>>
    ELSE IF e = 293 THEN <<1, 7, 9, 7, 6, 9, 3, 1, 3, 4, 8, 6, 2, 3, 1, 6>>
    ELSE IF e = 294 THEN <<1, 7, 9, 7, 6, 9, 3, 1, 3, 4, 8, 6, 2, 3, 2>>
    ELSE IF e = 295 THEN <<1, 7, 9, 7, 6, 9, 3, 1, 3, 4, 8, 6, 2, 4>>
    ELSE IF e = 296 THEN <<1, 7, 9, 7, 6, 9, 3, 1, 3, 4, 8, 6, 3>>
    ELSE IF e = 297 THEN <<1, 7, 9, 7, 6, 9, 3, 1, 3, 4, 8, 7>>
    ELSE IF e = 298 THEN <<1, 7, 9, 7, 6, 9, 3, 1, 3, 4, 9>>
    ELSE IF e = 299 THEN <<1, 7, 9, 7, 6, 9, 3, 1, 3, 5>>
    ELSE IF e = 300 THEN <<1, 7, 9, 7, 6, 9, 3, 1, 4>>
    ELSE IF e = 301 THEN <<1, 7, 9, 7, 6, 9, 3, 2>>
    ELSE IF e = 302 THEN <<1, 7, 9, 7, 6, 9, 4>>
    ELSE IF e = 303 THEN <<1, 7, 9, 7, 7, 0>>
    ELSE IF e = 304 THEN <<1, 7, 9, 7, 7>>
    ELSE IF e = 305 THEN <<1, 7, 9, 8>>
    ELSE IF e = 306 THEN <<1, 8, 0>>
    ELSE IF e = 307 THEN <<1, 8>>
    ELSE IF e = 308 THEN <<2>>
    ELSE <<>>

\* Deserializer::parse_integer and parse_long_integer on the digits
\* s[i..j-1]: the significand, and the count of the digits left out of it
\* once the next one would overflow u64.
RECURSIVE IntegerPart(_, _, _, _)
IntegerPart(s, i, j, sig) ==
    IF i >= j THEN [sig |-> sig, exp |-> 0]
    ELSE LET nx == Times10Plus(sig, s[i] - 48)
         IN  IF FitsU64(nx) THEN IntegerPart(s, i + 1, j, nx)
             ELSE [sig |-> sig, exp |-> j - i]

\* Deserializer::parse_decimal and parse_decimal_overflow on the digits
\* s[i..j-1]: each digit taken lowers the exponent by one; the digits from
\* the first that would overflow u64 on are ignored.
RECURSIVE DecimalPart(_, _, _, _, _)
DecimalPart(s, i, j, sig, exp) ==
    IF i >= j THEN [sig |-> sig, exp |-> exp]
    ELSE LET nx == Times10Plus(sig, s[i] - 48)
         IN  IF FitsU64(nx) THEN DecimalPart(s, i + 1, j, nx, exp - 1)
             ELSE [sig |-> sig, exp |-> exp]

\* Deserializer::parse_exponent on the digits s[i..j-1]: the exponent's
\* value, or the overflow of i32.
RECURSIVE ExponentDigits(_, _, _, _)
ExponentDigits(s, i, j, exp) ==
    IF i >= j THEN [over |-> FALSE, exp |-> exp]
    ELSE LET d == s[i] - 48
         IN  IF exp > I32_MAX \div 10
                \/ (exp = I32_MAX \div 10 /\ d > I32_MAX % 10)
             THEN [over |-> TRUE, exp |-> 0]
             ELSE ExponentDigits(s, i + 1, j, exp * 10 + d)

\* i32::saturating_add(a, b) and saturating_sub(a, b), for 0 <= b and a
\* far from the ends of i32.
SaturatingAdd(a, b) == IF a > 0 /\ b > I32_MAX - a THEN I32_MAX ELSE a + b
SaturatingSub(a, b) ==
    IF a < 0 /\ b > (a + I32_MAX) + 1 THEN (0 - I32_MAX) - 1 ELSE a - b

\* Deserializer::f64_from_parts: whether significand * 10^exponent is
\* taken (a finite f64) or refused ("number out of range").
F64FromParts(sig, exp) ==
    IF exp >= 0 - POW10_MAX /\ exp <= POW10_MAX
    THEN IF exp >= 0
         THEN SigLimit(exp) = <<>> \/ DigitsLess(sig, SigLimit(exp))
         ELSE TRUE
    ELSE IF sig = <<>> THEN TRUE
    ELSE exp < 0

\* Whether the number s[p0..p4-1] is in range: its integer part is
\* s[p0..p1-1], its fraction s[p1+1..p2-1] when hasFrac, its exponent's
\* digits s[p3..p4-1] when hasExp.
NumberInRange(s, p0, p1, hasFrac, p2, hasExp, p3, p4) ==
    LET int == IntegerPart(s, p0, p1, <<>>)
        dec == IF hasFrac
               THEN DecimalPart(s, p1 + 1, p2, int.sig, int.exp)
               ELSE int
    IN  IF ~hasFrac /\ ~hasExp /\ int.exp = 0 THEN TRUE
        ELSE IF ~hasExp THEN F64FromParts(dec.sig, dec.exp)
        ELSE LET positive_exp == s[p3 - 1] # 45
                 e == ExponentDigits(s, p3, p4, 0)
             IN  IF e.over THEN ~(dec.sig # <<>> /\ positive_exp)
                 ELSE F64FromParts(dec.sig,
                                   IF positive_exp
                                   THEN SaturatingAdd(dec.exp, e.exp)
                                   ELSE SaturatingSub(dec.exp, e.exp))

\* A number at s[i]: -? (0 | [1-9][0-9]*) (. [0-9]+)? ([eE] [+-]? [0-9]+)?
ParseNumber(s, i) ==
    LET n == Len(s)
        p0 == IF s[i] = 45 THEN i + 1 ELSE i
    IN  IF p0 > n \/ ~IsDigit(s[p0]) THEN PErr
        ELSE
        LET p1 == IF s[p0] = 48 THEN p0 + 1 ELSE DigitsEnd(s, p0)
            hasFrac == p1 <= n /\ s[p1] = 46
            p2 == IF hasFrac THEN DigitsEnd(s, p1 + 1) ELSE p1
            hasExp == p2 <= n /\ (s[p2] = 101 \/ s[p2] = 69)
            p3 == IF hasExp /\ p2 + 1 <= n /\ (s[p2 + 1] = 43 \/ s[p2 + 1] = 45)
                  THEN p2 + 2 ELSE p2 + 1
            p4 == IF hasExp THEN DigitsEnd(s, p3) ELSE p2
        IN  IF s[p0] = 48 /\ p1 <= n /\ IsDigit(s[p1]) THEN PErr
            ELSE IF hasFrac /\ p2 = p1 + 1 THEN PErr
            ELSE IF hasExp /\ p4 = p3 THEN PErr
            ELSE IF ~NumberInRange(s, p0, p1, hasFrac, p2, hasExp, p3, p4)
                 THEN PErr
            ELSE POk(JNum(SubSeq(s, i, p4 - 1)), p4)

\* The literal lit at s[i].
ParseLiteral(s, i, lit, val) ==
    IF i + Len(lit) - 1 <= Len(s) /\ SubSeq(s, i, i + Len(lit) - 1) = lit
    THEN POk(val, i + Len(lit))
    ELSE PErr

RECURSIVE ParseValue(_, _, _)
RECURSIVE ParseElems(_, _, _, _)
RECURSIVE ParseMembers(_, _, _, _)

\* The elements of an array from s[i] on (no whitespace at s[i]), acc the
\* elements so far.
ParseElems(s, i, acc, depth) ==
    LET r == ParseValue(s, i, depth)
        k == SkipWs(s, r.i)
    IN  IF ~r.ok THEN PErr
        ELSE IF k > Len(s) THEN PErr
        ELSE IF s[k] = 44
             THEN ParseElems(s, SkipWs(s, k + 1), Append(acc, r.v), depth)
        ELSE IF s[k] = 93 THEN POk(JArr(Append(acc, r.v)), k + 1)
        ELSE PErr

\* The members of an object from s[i] on (no whitespace at s[i]), acc the
\* map so far.
ParseMembers(s, i, acc, depth) ==
    IF i > Len(s) \/ s[i] # 34 THEN PErr
    ELSE
    LET key == ParseStrBody(s, i + 1, <<>>)
        c == SkipWs(s, key.i)
    IN  IF ~key.ok THEN PErr
        ELSE IF c > Len(s) \/ s[c] # 58 THEN PErr
        ELSE
        LET r == ParseValue(s, SkipWs(s, c + 1), depth)
            k == SkipWs(s, r.i)
        IN  IF ~r.ok THEN PErr
            ELSE IF k > Len(s) THEN PErr
            ELSE IF s[k] = 44
                 THEN ParseMembers(s, SkipWs(s, k + 1),
                                   MapInsert(acc, key.s, r.v), depth)
            ELSE IF s[k] = 125
                 THEN POk(JObj(MapInsert(acc, key.s, r.v)), k + 1)
            ELSE PErr

\* The value at s[i] (no whitespace at s[i]), depth the deserializer's
\* remaining_depth: an array or an object lowers it by one for what is
\* inside, and is refused ("recursion limit exceeded") when that gives 0.
ParseValue(s, i, depth) ==
    IF i > Len(s) THEN PErr
    ELSE IF s[i] = 110 THEN ParseLiteral(s, i, <<110, 117, 108, 108>>, JNull)
    ELSE IF s[i] = 116
         THEN ParseLiteral(s, i, <<116, 114, 117, 101>>, JBool(TRUE))
    ELSE IF s[i] = 102
         THEN ParseLiteral(s, i, <<102, 97, 108, 115, 101>>, JBool(FALSE))
    ELSE IF s[i] = 34
         THEN LET r == ParseStrBody(s, i + 1, <<>>)
              IN  IF r.ok THEN POk(JStr(r.s), r.i) ELSE PErr
    ELSE IF s[i] = 91
         THEN LET j == SkipWs(s, i + 1)
              IN  IF j > Len(s) THEN PErr
                  ELSE IF depth - 1 = 0 THEN PErr
                  ELSE IF s[j] = 93 THEN POk(JArr(<<>>), j + 1)
                  ELSE ParseElems(s, j, <<>>, depth - 1)
    ELSE IF s[i] = 123
         THEN LET j == SkipWs(s, i + 1)
              IN  IF j > Len(s) THEN PErr
                  ELSE IF depth - 1 = 0 THEN PErr
                  ELSE IF s[j] = 125 THEN POk(JObj(<<>>), j + 1)
                  ELSE ParseMembers(s, j, <<>>, depth - 1)
    ELSE IF s[i] = 45 \/ IsDigit(s[i]) THEN ParseNumber(s, i)
    ELSE PErr

\* serde_json::from_str: Ok(value) or Err.
from_str(s) ==
    LET r == ParseValue(s, SkipWs(s, 1), RecursionLimit)
    IN  IF r.ok /\ SkipWs(s, r.i) > Len(s)
        THEN [ok |-> TRUE, v |-> r.v]
        ELSE [ok |-> FALSE, v |-> JNull]

(***************************************************************************)
(* The inputs of a call: the inbound request, and what the inference       *)
(* server and the caller's connection do.                                  *)
(***************************************************************************)
\* "hi"
T_hi == <<104, 105>>
\* "hello"
T_hello == <<104, 101, 108, 108, 111>>
\* "m"
T_m == <<109>>
\* "a"
T_a == <<97>>
\* "z"
T_z == <<122>>
\* "foo"
T_foo == <<102, 111, 111>>
\* "1"
T_1 == <<49>>

\* The inbound messages: [{"role": "user", "content": "hi"}].
ReqMessages == << [role |-> <<117, 115, 101, 114>>, content |-> T_hi] >>

\* Inbound model tokens: absent, "llama3.1", "m.x", "m:x".
ReqModels == {None, Some(ALIAS_MODEL), Some(<<109, 46, 120>>),
              Some(<<109, 58, 120>>)}

\* The model tokens normalize_model is applied to on its own: absent, every
\* text of at most MaxTokenLen characters out of '.', ':' and 'm', the
\* alias "llama3.1", the default "llama3:8b", and "llama3.8b",
\* "llama3.1.2", "llama3.1:x".
TokenBytes == {DOT, COLON, 109}

ModelTokens ==
    {None}
    \union {Some(t) : t \in UNION {[1..n -> TokenBytes] : n \in 0..MaxTokenLen}}
    \union {Some(ALIAS_MODEL), Some(DEFAULT_MODEL),
            Some(<<108, 108, 97, 109, 97, 51, 46, 56, 98>>),
            Some(<<108, 108, 97, 109, 97, 51, 46, 49, 46, 50>>),
            Some(<<108, 108, 97, 109, 97, 51, 46, 49, 58, 120>>)}

\* The inbound `stream` field: absent, true, false.
ReqStreams == {NoneBool, SomeBool(TRUE), SomeBool(FALSE)}

\* ChatReq, main.rs:19-23.
ChatReq == {[messages |-> ReqMessages, model |-> m, stream |-> st] :
               m \in ReqModels, st \in ReqStreams}

\* The texts of transport errors (reqwest::Error's Display): "timed out",
\* "refused".
ErrDetails == {<<116, 105, 109, 101, 100, 32, 111, 117, 116>>,
               <<114, 101, 102, 117, 115, 101, 100>>}

\* The chunks an upstream body is made of: "a", "bc", "é", the first byte
\* of "é" alone (not UTF-8), and "__ERR__:x".
ChunkPool == {T_a, <<98, 99>>, <<195, 169>>, <<195>>,
              <<95, 95, 69, 82, 82, 95, 95, 58, 120>>}

ChunkCycle == <<T_a, <<98, 99>>, <<195, 169>>, <<195>>>>

\* What the upstream may yield after the chunks in `read`.
NextChunks(read) ==
    IF Len(read) < MaxFree THEN ChunkPool
    ELSE {ChunkCycle[(Len(read) % Len(ChunkCycle)) + 1]}

\* The upstream's JSON serializer, for the documents of BodyDocs (their
\* strings hold no control character).
RECURSIVE Render(_)
RECURSIVE RenderItems(_, _)
RECURSIVE RenderEntries(_, _)
RenderStr(s) ==
    LET RECURSIVE Esc(_)
        Esc(i) == IF i > Len(s) THEN <<>>
                  ELSE (IF s[i] = 34 \/ s[i] = 92 THEN <<92, s[i]>>
                        ELSE <<s[i]>>) \o Esc(i + 1)
    IN  <<34>> \o Esc(1) \o <<34>>
RenderItems(items, i) ==
    IF i > Len(items) THEN <<>>
    ELSE (IF i > 1 THEN <<44>> ELSE <<>>) \o Render(items[i])
         \o RenderItems(items, i + 1)
RenderEntries(entries, i) ==
    IF i > Len(entries) THEN <<>>
    ELSE (IF i > 1 THEN <<44>> ELSE <<>>) \o RenderStr(entries[i][1])
         \o <<58>> \o Render(entries[i][2]) \o RenderEntries(entries, i + 1)
Render(val) ==
    IF val.t = "null" THEN <<110, 117, 108, 108>>
    ELSE IF val.t = "bool"
         THEN (IF val.v = <<1>> THEN <<116, 114, 117, 101>>
               ELSE <<102, 97, 108, 115, 101>>)
    ELSE IF val.t = "num" THEN val.v
    ELSE IF val.t = "str" THEN RenderStr(val.v)
    ELSE IF val.t = "arr" THEN <<91>> \o RenderItems(val.v, 1) \o <<93>>
    ELSE <<123>> \o RenderEntries(val.v, 1) \o <<125>>

\* Upstream documents.
BodyDocs == {
    \* {"message":{"content":"hello"}}
    JObj(<< <<KEY_MESSAGE, JObj(<< <<KEY_CONTENT, JStr(T_hello)>> >>)>> >>),
    \* {"content":"hi"}
    JObj(<< <<KEY_CONTENT, JStr(T_hi)>> >>),
    \* {"content":""}
    JObj(<< <<KEY_CONTENT, JStr(<<>>)>> >>),
    \* {"foo":{"content":"hi"}}
    JObj(<< <<T_foo, JObj(<< <<KEY_CONTENT, JStr(T_hi)>> >>)>> >>),
    \* {"content":1,"message":{"content":"m"}}
    JObj(<< <<KEY_CONTENT, JNum(T_1)>>,
            <<KEY_MESSAGE, JObj(<< <<KEY_CONTENT, JStr(T_m)>> >>)>> >>),
    \* {"a":{"content":"a"},"content":"hi","message":{"content":"m"}}
    JObj(<< <<T_a, JObj(<< <<KEY_CONTENT, JStr(T_a)>> >>)>>,
            <<KEY_CONTENT, JStr(T_hi)>>,
            <<KEY_MESSAGE, JObj(<< <<KEY_CONTENT, JStr(T_m)>> >>)>> >>),
    \* {"message":"m","z":{"content":"z"}}
    JObj(<< <<KEY_MESSAGE, JStr(T_m)>>,
            <<T_z, JObj(<< <<KEY_CONTENT, JStr(T_z)>> >>)>> >>),
    \* {"a":1,"z":"hello"}
    JObj(<< <<T_a, JNum(T_1)>>, <<T_z, JStr(T_hello)>> >>),
    \* ["a",{"content":"hi"}]
    JArr(<< JStr(T_a), JObj(<< <<KEY_CONTENT, JStr(T_hi)>> >>) >>),
    \* "hello"
    JStr(T_hello),
    \* []
    JArr(<<>>),
    \* null
    JNull }

\* {"content":"hi","x":1e999}
B_OUT_OF_RANGE ==
    <<123, 34, 99, 111, 110, 116, 101, 110, 116, 34, 58, 34, 104, 105, 34, 44,
      34, 120, 34, 58, 49, 101, 57, 57, 57, 125>>

\* Upstream bodies that are no rendering of a document.
RawBodies == {
    \* a number that is no finite f64
    B_OUT_OF_RANGE,
    \* not json{{
    <<110, 111, 116, 32, 106, 115, 111, 110, 123, 123>>,
    \* {"a": 1, "b": "text"}
    <<123, 34, 97, 34, 58, 32, 49, 44, 32, 34, 98, 34, 58, 32, 34, 116, 101,
      120, 116, 34, 125>>,
    \* {"content":"hi"} x
    <<123, 34, 99, 111, 110, 116, 101, 110, 116, 34, 58, 34, 104, 105, 34,
      125, 32, 120>>,
    \* {"z":{"content":"z"},"content":"hi"}
    <<123, 34, 122, 34, 58, 123, 34, 99, 111, 110, 116, 101, 110, 116, 34,
      58, 34, 122, 34, 125, 44, 34, 99, 111, 110, 116, 101, 110, 116, 34, 58,
      34, 104, 105, 34, 125>>,
    \* the empty body
    <<>> }

BodyPool == {Render(d) : d \in BodyDocs} \union RawBodies

\* The documents extract_content is applied to on its own: the values of
\* PoolInner, the arrays of at most MaxArrayLen of them, and the objects
\* that give each key of PoolKeys no value or one of them.
PoolLeaves == {JStr(T_hi), JStr(<<>>), JNull, JNum(T_1), JBool(TRUE)}

PoolInner ==
    PoolLeaves
    \union {JObj(<< <<KEY_CONTENT, l>> >>) : l \in {JStr(T_m), JStr(<<>>), JNum(T_1)}}
    \union {JObj(<<>>),
            JObj(<< <<T_a, JStr(T_a)>> >>),
            JObj(<< <<T_a, JObj(<< <<KEY_CONTENT, JStr(T_foo)>> >>)>> >>),
            JArr(<< JObj(<< <<KEY_CONTENT, JStr(T_z)>> >>) >>)}

\* "a" < "content" < "message" < "z"
PoolKeys == <<T_a, KEY_CONTENT, KEY_MESSAGE, T_z>>

Absent == [t |-> "absent", v |-> <<>>]

PoolObject(f) ==
    JObj(SelectSeq([i \in 1..Len(PoolKeys) |-> <<PoolKeys[i], f[i]>>],
                   LAMBDA e : e[2] # Absent))

\* The documents the specification gives as examples.
\* {"a": 1, "b": "text"}
EX_NO_MATCH ==
    JObj(<< <<T_a, JNum(T_1)>>, <<<<98>>, JStr(<<116, 101, 120, 116>>)>> >>)
\* {"foo": {"content": "nested"}}
EX_NESTED ==
    JObj(<< <<T_foo, JObj(<< <<KEY_CONTENT,
                               JStr(<<110, 101, 115, 116, 101, 100>>)>> >>)>> >>)
\* ["x", {"content": "found"}]
EX_ARRAY ==
    JArr(<< JStr(<<120>>),
            JObj(<< <<KEY_CONTENT, JStr(<<102, 111, 117, 110, 100>>)>> >>) >>)
\* [{"a":{"b":{"content":"deep"}}}, {"content":"shallow"}]
EX_DEEP ==
    JArr(<< JObj(<< <<T_a, JObj(<< <<<<98>>, JObj(<< <<KEY_CONTENT,
                         JStr(<<100, 101, 101, 112>>)>> >>)>> >>)>> >>),
            JObj(<< <<KEY_CONTENT,
                      JStr(<<115, 104, 97, 108, 108, 111, 119>>)>> >>) >>)

ExampleDocs == {EX_NO_MATCH, EX_NESTED, EX_ARRAY, EX_DEEP}

JsonPool ==
    PoolInner
    \union ExampleDocs
    \union {JArr(items) :
               items \in UNION {[1..n -> PoolInner] : n \in 0..MaxArrayLen}}
    \union {PoolObject(f) :
               f \in [1..Len(PoolKeys) -> PoolInner \union {Absent}]}

(***************************************************************************)
(* The state of one inbound call.                                          *)
(***************************************************************************)
VARIABLES
    endpoint,   \* "chat" (POST /api/chat) or "chat_stream" (/api/chat/stream)
    req,        \* the inbound ChatReq
    hpc,        \* where the handler is: "start", "await_send", "await_text",
                \* "spawned", "returned"
    posts,      \* the bodies POSTed to the inference server, in order
    upStatus,   \* whether the upstream's status is a success (once it answered)
    upBody,     \* the body text the upstream answers with (buffered call,
                \* non-success streaming call)
    stages,     \* chat: the stages run so far ("send", "text", "parse",
                \* "extract")
    bodyText,   \* Option, the body text resp.text() gave (chat, and the
                \* non-success branch of chat_stream)
    json,       \* chat: Option, the parsed Value
    found,      \* Option, what extract_content returned
    resp,       \* chat: Option, the content of the ChatResp returned
    path,       \* chat_stream: "none", "send_err", "bad_status", "relay"
    cap,        \* the capacity of the call's mpsc channel (0: none yet)
    chan,       \* the events in the channel, oldest first
    txAlive,    \* a Sender of the channel exists
    rxOpen,     \* the Receiver exists (the consumer is connected)
    cstate,     \* the consumer: "none", "open", "ended" (saw the end of the
                \* stream), "gone" (disconnected)
    delivered,  \* the events the consumer took, in order
    goneAt,     \* Len(upRead) when the consumer disconnected
    tpc,        \* the relay task: "none", "next" (at try_next().await),
                \* "send" / "send_err" (at tx.send(..).await), "done",
                \* "panicked"
    pending,    \* the event the relay task is sending
    upRead,     \* the chunks try_next() has yielded, in order
    upState,    \* the upstream body stream: "open", "done" (yielded None),
                \* "failed" (yielded Err)
    upErr       \* Option, the detail of the transport error the call met
                \* (at send(), at text() in chat, or at try_next())

vars == <<endpoint, req, hpc, posts, upStatus, upBody, stages, bodyText, json,
          found, resp, path, cap, chan, txAlive, rxOpen, cstate, delivered, goneAt,
          tpc, pending, upRead, upState, upErr>>

reqVars == <<endpoint, req>>
chatVars == <<stages, json, found, resp>>
chanVars == <<cap, chan, txAlive, rxOpen, cstate, delivered, goneAt>>
relayVars == <<tpc, pending, upRead, upState>>

NoEvent == Event(<<>>)

Init ==
    /\ endpoint \in {"chat", "chat_stream"}
    /\ req \in ChatReq
    /\ hpc = "start"
    /\ posts = <<>>
    /\ upStatus = TRUE
    /\ upBody = <<>>
    /\ stages = <<>>
    /\ bodyText = None
    /\ json = None
    /\ found = None
    /\ resp = None
    /\ path = "none"
    /\ cap = 0
    /\ chan = <<>>
    /\ txAlive = FALSE
    /\ rxOpen = FALSE
    /\ cstate = "none"
    /\ delivered = <<>>
    /\ goneAt = 0
    /\ tpc = "none"
    /\ pending = NoEvent
    /\ upRead = <<>>
    /\ upState = "open"
    /\ upErr = None

(***************************************************************************)
(* chat, main.rs:57-147.                                                   *)
(***************************************************************************)
\* main.rs:79-83, the body of the upstream request.
ChatBody(r) ==
    [model |-> chat_normalize_model(r.model), messages |-> r.messages,
     stream |-> FALSE]

\* Mutation of Post: the request is sent again.
Post_retry(sent, body) == sent \o <<body, body>>

\* client.post(url).json(&body).send(), main.rs:86 and main.rs:177: one
\* request goes out.
Post(sent, body) == Append(sent, body)

\* main.rs:76-86: the request is built and POSTed.
ChatSend ==
    /\ endpoint = "chat" /\ hpc = "start"
    /\ posts' = Post(posts, ChatBody(req))
    /\ stages' = Append(stages, "send")
    /\ hpc' = "await_send"
    /\ UNCHANGED <<reqVars, upStatus, upBody, bodyText, json, found, resp, path,
                   chanVars, relayVars, upErr>>

\* main.rs:88-91: send() fails with e.
ChatSendErr(e) ==
    /\ endpoint = "chat" /\ hpc = "await_send"
    /\ resp' = Some(ContactError(e))
    /\ upErr' = Some(e)
    /\ hpc' = "returned"
    /\ UNCHANGED <<reqVars, posts, upStatus, upBody, stages, bodyText, json, found,
                   path, chanVars, relayVars>>

\* Mutation of ChatSendOk: a response whose status is not a success is
\* answered with its body as it is, as chat_stream does.
ChatSendOk_checked(ok, body) ==
    /\ endpoint = "chat" /\ hpc = "await_send"
    /\ upStatus' = ok
    /\ upBody' = body
    /\ stages' = Append(stages, "text")
    /\ IF ok
       THEN /\ hpc' = "await_text"
            /\ UNCHANGED <<bodyText, resp>>
       ELSE /\ hpc' = "returned"
            /\ bodyText' = Some(body)
            /\ resp' = Some(body)
    /\ UNCHANGED <<reqVars, posts, json, found, path, chanVars, relayVars,
                   upErr>>

\* main.rs:87, main.rs:95: send() gives a response, of any status, and
\* its body is awaited.
ChatSendOk(ok, body) ==
    /\ endpoint = "chat" /\ hpc = "await_send"
    /\ upStatus' = ok
    /\ upBody' = body
    /\ stages' = Append(stages, "text")
    /\ hpc' = "await_text"
    /\ UNCHANGED <<reqVars, posts, bodyText, json, found, resp, path, chanVars,
                   relayVars, upErr>>

\* main.rs:97-100: text() fails with e.
ChatTextErr(e) ==
    /\ endpoint = "chat" /\ hpc = "await_text"
    /\ resp' = Some(ReadBodyError(e))
    /\ upErr' = Some(e)
    /\ hpc' = "returned"
    /\ UNCHANGED <<reqVars, posts, upStatus, upBody, stages, bodyText, json, found,
                   path, chanVars, relayVars>>

\* Mutation of ContentOf: the fallback is the empty text.
ContentOf_empty(val, body_text) ==
    LET hit == extract_content(val)
    IN  IF hit.some THEN hit.v ELSE <<>>

\* main.rs:144: extract_content(&json).unwrap_or_else(|| body_text.clone())
ContentOf(val, body_text) ==
    LET hit == extract_content(val)
    IN  IF hit.some THEN hit.v ELSE body_text

\* main.rs:96, main.rs:104-146: text() gives the body; it is parsed, the
\* content is extracted and the response returned.
ChatTextOk ==
    /\ endpoint = "chat" /\ hpc = "await_text"
    /\ LET body_text == upBody
           parsed == from_str(body_text)
       IN  /\ bodyText' = Some(body_text)
           /\ IF parsed.ok
              THEN /\ json' = Some(parsed.v)
                   /\ stages' = stages \o <<"parse", "extract">>
                   /\ found' = extract_content(parsed.v)
                   /\ resp' = Some(ContentOf(parsed.v, body_text))
              ELSE /\ json' = None
                   /\ stages' = Append(stages, "parse")
                   /\ found' = None
                   /\ resp' = Some(body_text)
    /\ hpc' = "returned"
    /\ UNCHANGED <<reqVars, posts, upStatus, upBody, path, chanVars,
                   relayVars, upErr>>

(***************************************************************************)
(* chat_stream, main.rs:150-226: the handler.                              *)
(***************************************************************************)
\* Mutation of ChatStreamBody: the inbound `stream` field, when present,
\* is passed on.
ChatStreamBody_echo(r) ==
    [model |-> chat_stream_normalize_model(r.model), messages |-> r.messages,
     stream |-> IF r.stream.some THEN r.stream.v ELSE TRUE]

\* main.rs:170-174, the body of the upstream request.
ChatStreamBody(r) ==
    [model |-> chat_stream_normalize_model(r.model), messages |-> r.messages,
     stream |-> TRUE]

\* main.rs:167-177: the request is built and POSTed.
StreamSend ==
    /\ endpoint = "chat_stream" /\ hpc = "start"
    /\ posts' = Post(posts, ChatStreamBody(req))
    /\ hpc' = "await_send"
    /\ UNCHANGED <<reqVars, upStatus, upBody, chatVars, bodyText, path,
                   chanVars, relayVars, upErr>>

\* Mutation of OneEventStream: the sender outlives the handler.
OneEventStream_open(text) ==
    /\ cap' = ErrChannelCap
    /\ chan' = <<Event(text)>>
    /\ txAlive' = TRUE
    /\ rxOpen' = TRUE
    /\ cstate' = "open"
    /\ hpc' = "returned"
    /\ UNCHANGED <<delivered, goneAt>>

\* main.rs:182-184 and main.rs:194-196: a channel of capacity 1 is made,
\* the one event sent into it (there is room, so the send does not wait)
\* and the Sse over its receiver returned; tx_err is dropped on return.
OneEventStream(text) ==
    /\ cap' = ErrChannelCap
    /\ chan' = <<Event(text)>>
    /\ txAlive' = FALSE
    /\ rxOpen' = TRUE
    /\ cstate' = "open"
    /\ hpc' = "returned"
    /\ UNCHANGED <<delivered, goneAt>>

\* main.rs:179-185: send() fails with e.
StreamSendErr(e) ==
    /\ endpoint = "chat_stream" /\ hpc = "await_send"
    /\ path' = "send_err"
    /\ upErr' = Some(e)
    /\ OneEventStream(ContactError(e))
    /\ UNCHANGED <<reqVars, posts, upStatus, upBody, chatVars, bodyText,
                   relayVars>>

\* main.rs:188-189: the response's status is not a success; its body is
\* awaited.
StreamBadStatus(body) ==
    /\ endpoint = "chat_stream" /\ hpc = "await_send"
    /\ upStatus' = FALSE
    /\ upBody' = body
    /\ path' = "bad_status"
    /\ hpc' = "await_text"
    /\ UNCHANGED <<reqVars, posts, chatVars, bodyText, chanVars, relayVars,
                   upErr>>

\* Mutation of ErrorBodyText: the body is not used.
ErrorBodyText_fixed(readOk, body) == UNKNOWN_ERROR

\* main.rs:189-192: the text of the error body, or the fixed text when
\* reading it fails.
ErrorBodyText(readOk, body) == IF readOk THEN body ELSE UNKNOWN_ERROR

\* main.rs:189-196: text() ends (readOk: with the body, else with an
\* error) and the one-event stream is returned.
StreamErrBody(readOk) ==
    /\ endpoint = "chat_stream" /\ hpc = "await_text"
    /\ bodyText' = IF readOk THEN Some(upBody) ELSE None
    /\ OneEventStream(ErrorBodyText(readOk, upBody))
    /\ UNCHANGED <<reqVars, posts, upStatus, upBody, chatVars, path,
                   relayVars, upErr>>

\* main.rs:188, main.rs:200-203: a success status; the channel of capacity
\* 16 is made and the relay task spawned.
StreamSpawn ==
    /\ endpoint = "chat_stream" /\ hpc = "await_send"
    /\ upStatus' = TRUE
    /\ path' = "relay"
    /\ cap' = ChannelCap
    /\ chan' = <<>>
    /\ txAlive' = TRUE
    /\ rxOpen' = TRUE
    /\ tpc' = "next"
    /\ hpc' = "spawned"
    /\ UNCHANGED <<reqVars, posts, upBody, chatVars, bodyText, cstate,
                   delivered, goneAt, pending, upRead, upState, upErr>>

\* Mutation of StreamReturn: the handler waits for the end of the
\* upstream body before it returns the stream.
StreamReturn_afterBody ==
    /\ endpoint = "chat_stream" /\ hpc = "spawned"
    /\ upState # "open"
    /\ cstate' = "open"
    /\ hpc' = "returned"
    /\ UNCHANGED <<reqVars, posts, upStatus, upBody, chatVars, bodyText,
                   path, cap, chan, txAlive, rxOpen, delivered, goneAt,
                   relayVars, upErr>>

\* main.rs:224-225: the Sse over the receiver is returned to the caller.
StreamReturn ==
    /\ endpoint = "chat_stream" /\ hpc = "spawned"
    /\ cstate' = "open"
    /\ hpc' = "returned"
    /\ UNCHANGED <<reqVars, posts, upStatus, upBody, chatVars, bodyText,
                   path, cap, chan, txAlive, rxOpen, delivered, goneAt,
                   relayVars, upErr>>

(***************************************************************************)
(* chat_stream, main.rs:203-222: the relay task.                           *)
(***************************************************************************)
\* Mutation of HasRoom: the channel is unbounded.
HasRoom_unbounded(ch, c) == TRUE

\* Sender::send finds room in a channel holding ch, of capacity c.
HasRoom(ch, c) == Len(ch) < c

\* Mutation of Enqueue: the event is merged into the newest queued one.
Enqueue_merging(ch, ev) ==
    IF ch = <<>> THEN <<ev>>
    ELSE SubSeq(ch, 1, Len(ch) - 1) \o <<Event(ch[Len(ch)].data \o ev.data)>>

\* The channel after a send of ev is accepted.
Enqueue(ch, ev) == Append(ch, ev)

\* Mutation of SendFailed: the result of send() is ignored and the loop
\* goes on.
SendFailed_continues == "next"

\* main.rs:212-213: how the task ends when send() returns Err (the
\* receiver is gone): the loop is left, nothing is raised.
SendFailed == "done"

\* main.rs:204-210: try_next() yields Some(Ok(bytes)); the chunk is decoded
\* and made an event.
RelayNext(bytes) ==
    /\ tpc = "next" /\ upState = "open"
    /\ Len(upRead) < MaxChunks
    /\ bytes \in NextChunks(upRead)
    /\ upRead' = Append(upRead, bytes)
    /\ pending' = Event(DecodeChunk(bytes))
    /\ tpc' = "send"
    /\ UNCHANGED <<reqVars, hpc, posts, upStatus, upBody, chatVars, bodyText,
                   path, chanVars, upState, upErr>>

\* main.rs:204, main.rs:216-217: try_next() yields Some(Err(e)); the marker
\* event is made.
RelayNextErr(e) ==
    /\ tpc = "next" /\ upState = "open"
    /\ upState' = "failed"
    /\ upErr' = Some(e)
    /\ pending' = ErrEvent(e)
    /\ tpc' = "send_err"
    /\ UNCHANGED <<reqVars, hpc, posts, upStatus, upBody, chatVars, bodyText,
                   path, chanVars, upRead>>

\* Mutation of RelayNextEnd: the task ends and its sender is kept.
RelayNextEnd_keepsSender ==
    /\ tpc = "next" /\ upState = "open"
    /\ upState' = "done"
    /\ tpc' = "done"
    /\ UNCHANGED <<reqVars, hpc, posts, upStatus, upBody, chatVars, bodyText,
                   path, chanVars, pending, upRead, upErr>>

\* main.rs:204, main.rs:221-222: try_next() yields None; the loop and the
\* task end, tx is dropped.
RelayNextEnd ==
    /\ tpc = "next" /\ upState = "open"
    /\ upState' = "done"
    /\ tpc' = "done"
    /\ txAlive' = FALSE
    /\ UNCHANGED <<reqVars, hpc, posts, upStatus, upBody, chatVars, bodyText,
                   path, cap, chan, rxOpen, cstate, delivered, goneAt,
                   pending, upRead, upErr>>

\* Mutation of RelaySend: the send does not see that the receiver is gone.
RelaySend_blind ==
    /\ tpc = "send"
    /\ HasRoom(chan, cap)
    /\ chan' = Enqueue(chan, pending)
    /\ tpc' = "next"
    /\ UNCHANGED <<reqVars, hpc, posts, upStatus, upBody, chatVars, bodyText,
                   path, cap, txAlive, rxOpen, cstate, delivered, goneAt,
                   pending, upRead, upState, upErr>>

\* main.rs:212-214: tx.send(event).await ends: Err when the receiver is
\* gone (the task ends), Ok once the channel has room (the loop goes on).
\* With the receiver there and the channel full the task stays suspended.
RelaySend ==
    /\ tpc = "send"
    /\ IF ~rxOpen
       THEN /\ tpc' = SendFailed
            /\ txAlive' = FALSE
            /\ chan' = chan
       ELSE /\ HasRoom(chan, cap)
            /\ chan' = Enqueue(chan, pending)
            /\ tpc' = "next"
            /\ txAlive' = txAlive
    /\ UNCHANGED <<reqVars, hpc, posts, upStatus, upBody, chatVars, bodyText,
                   path, cap, rxOpen, cstate, delivered, goneAt, pending,
                   upRead, upState, upErr>>

\* main.rs:217-218: the send of the marker event ends, its result is
\* dropped, and the task ends.
RelaySendErr ==
    /\ tpc = "send_err"
    /\ IF ~rxOpen
       THEN chan' = chan
       ELSE /\ HasRoom(chan, cap)
            /\ chan' = Enqueue(chan, pending)
    /\ tpc' = "done"
    /\ txAlive' = FALSE
    /\ UNCHANGED <<reqVars, hpc, posts, upStatus, upBody, chatVars, bodyText,
                   path, cap, rxOpen, cstate, delivered, goneAt, pending,
                   upRead, upState, upErr>>

(***************************************************************************)
(* The consumer of the event stream: the response writer of main.rs:184,   *)
(* main.rs:196 and main.rs:225 (Sse over ReceiverStream), and the caller's *)
(* connection behind it.                                                   *)
(***************************************************************************)
\* The writer takes the oldest event from the channel.
ConsumerRecv ==
    /\ hpc = "returned" /\ cstate = "open"
    /\ chan # <<>>
    /\ delivered' = Append(delivered, Head(chan))
    /\ chan' = Tail(chan)
    /\ UNCHANGED <<reqVars, hpc, posts, upStatus, upBody, chatVars, bodyText,
                   path, cap, txAlive, rxOpen, cstate, goneAt, relayVars,
                   upErr>>

\* The channel is empty and has no sender left: the stream ends.
ConsumerEnd ==
    /\ hpc = "returned" /\ cstate = "open"
    /\ chan = <<>> /\ ~txAlive
    /\ cstate' = "ended"
    /\ rxOpen' = FALSE
    /\ UNCHANGED <<reqVars, hpc, posts, upStatus, upBody, chatVars, bodyText,
                   path, cap, chan, txAlive, delivered, goneAt, relayVars,
                   upErr>>

\* The caller disconnects: the receiver is dropped, and the events still
\* in the channel with it.
ConsumerDisconnect ==
    /\ hpc = "returned" /\ cstate = "open"
    /\ cstate' = "gone"
    /\ rxOpen' = FALSE
    /\ chan' = <<>>
    /\ goneAt' = Len(upRead)
    /\ UNCHANGED <<reqVars, hpc, posts, upStatus, upBody, chatVars, bodyText,
                   path, cap, txAlive, delivered, relayVars, upErr>>

(***************************************************************************)
(* The specification: one call to either endpoint.                         *)
(***************************************************************************)
Chat ==
    \/ ChatSend
    \/ \E e \in ErrDetails : ChatSendErr(e)
    \/ \E ok \in BOOLEAN, body \in BodyPool : ChatSendOk(ok, body)
    \/ \E e \in ErrDetails : ChatTextErr(e)
    \/ ChatTextOk

ChatStream ==
    \/ StreamSend
    \/ \E e \in ErrDetails : StreamSendErr(e)
    \/ \E body \in BodyPool : StreamBadStatus(body)
    \/ \E readOk \in BOOLEAN : StreamErrBody(readOk)
    \/ StreamSpawn
    \/ StreamReturn

Relay ==
    \/ \E bytes \in ChunkPool : RelayNext(bytes)
    \/ \E e \in ErrDetails : RelayNextErr(e)
    \/ RelayNextEnd
    \/ RelaySend
    \/ RelaySendErr

Consumer ==
    \/ ConsumerRecv
    \/ ConsumerEnd
    \/ ConsumerDisconnect

Next == Chat \/ ChatStream \/ Relay \/ Consumer

Spec == Init /\ [][Next]_vars

(***************************************************************************)
(* One call to chat_stream, with the scheduling of the runtime: once the   *)
(* relay task is spawned the handler returns the stream, and a send of the *)
(* relay task that can end ends.  Nothing is assumed of the upstream (it   *)
(* may never answer the request, never yield a chunk, never end its body)  *)
(* or of the caller.                                                       *)
(***************************************************************************)
InitStream ==
    /\ Init
    /\ endpoint = "chat_stream"
    /\ req = [messages |-> ReqMessages, model |-> None, stream |-> NoneBool]

NextStream == ChatStream \/ Relay \/ Consumer

\* The steps that wait for nothing but the runtime and the channel: the
\* return of the handler after tokio::spawn (main.rs:224-225) and the sends
\* of the relay task (main.rs:209, main.rs:216).  The end of send().await
\* (main.rs:176-180) is the upstream's to decide and is not among them.
Scheduling ==
    /\ WF_vars(StreamReturn)
    /\ WF_vars(RelaySend)
    /\ WF_vars(RelaySendErr)

SpecStream == InitStream /\ [][NextStream]_vars /\ Scheduling

\* The same with a caller that keeps consuming: the response writer takes
\* an event that is there, and sees the end of the stream when it is there.
Consuming ==
    /\ WF_vars(ConsumerRecv)
    /\ WF_vars(ConsumerEnd)

SpecStreamConsumed ==
    InitStream /\ [][NextStream]_vars /\ Scheduling /\ Consuming

(***************************************************************************)
(* extract_content on its own: one application to a document of JsonPool.  *)
(***************************************************************************)
InitExtract ==
    /\ endpoint = "extract_content"
    /\ req = [messages |-> <<>>, model |-> None, stream |-> NoneBool]
    /\ hpc = "start"
    /\ posts = <<>>
    /\ upStatus = TRUE
    /\ upBody = <<>>
    /\ stages = <<>>
    /\ bodyText = None
    /\ json \in {Some(d) : d \in JsonPool}
    /\ found = None
    /\ resp = None
    /\ path = "none"
    /\ cap = 0
    /\ chan = <<>>
    /\ txAlive = FALSE
    /\ rxOpen = FALSE
    /\ cstate = "none"
    /\ delivered = <<>>
    /\ goneAt = 0
    /\ tpc = "none"
    /\ pending = NoEvent
    /\ upRead = <<>>
    /\ upState = "open"
    /\ upErr = None

\* main.rs:113-142: extract_content(&json) is called and returns.
ExtractCall ==
    /\ endpoint = "extract_content" /\ hpc = "start"
    /\ found' = extract_content(json.v)
    /\ hpc' = "returned"
    /\ UNCHANGED <<reqVars, posts, upStatus, upBody, stages, bodyText, json,
                   resp, path, chanVars, relayVars, upErr>>

NextExtract == ExtractCall

SpecExtract == InitExtract /\ [][NextExtract]_vars

(***************************************************************************)
(* normalize_model on its own: a call of either bridge with a token of     *)
(* ModelTokens, up to the POST, and a second call whose token is the       *)
(* identifier the first one was sent with.                                 *)
(***************************************************************************)
InitNormalize ==
    /\ endpoint \in {"chat", "chat_stream"}
    /\ req \in {[messages |-> ReqMessages, model |-> m, stream |-> NoneBool] :
                    m \in ModelTokens}
    /\ hpc = "start"
    /\ posts = <<>>
    /\ upStatus = TRUE
    /\ upBody = <<>>
    /\ stages = <<>>
    /\ bodyText = None
    /\ json = None
    /\ found = None
    /\ resp = None
    /\ path = "none"
    /\ cap = 0
    /\ chan = <<>>
    /\ txAlive = FALSE
    /\ rxOpen = FALSE
    /\ cstate = "none"
    /\ delivered = <<>>
    /\ goneAt = 0
    /\ tpc = "none"
    /\ pending = NoEvent
    /\ upRead = <<>>
    /\ upState = "open"
    /\ upErr = None

\* A second call to the same endpoint, its token the identifier of the
\* first upstream request.
Renormalize ==
    /\ hpc = "await_send" /\ Len(posts) = 1
    /\ req' = [req EXCEPT !.model = Some(posts[1].model)]
    /\ hpc' = "start"
    /\ UNCHANGED <<endpoint, posts, upStatus, upBody, chatVars, bodyText, path,
                   chanVars, relayVars, upErr>>

NextNormalize == ChatSend \/ StreamSend \/ Renormalize

SpecNormalize == InitNormalize /\ [][NextNormalize]_vars

(***************************************************************************)
(* Properties of the streaming bridge.                                     *)
(***************************************************************************)
\* The events the chunks in `read` are relayed as: one per chunk, its
\* decoded text.
Decoded(read) == [i \in 1..Len(read) |-> Event(DecodeChunk(read[i]))]

\* The event the relay task has made and not yet put into the channel.
InHand == IF tpc \in {"send", "send_err"} THEN <<pending>> ELSE <<>>

\* The event begins with the error marker.
HasMarker(ev) == IsPrefix(ERR_MARKER, ev.data)

\* C1: chunk fidelity.  In a relay, the events delivered to the caller are
\* at every moment a prefix of the decoded texts of the chunks read, in
\* arrival order (followed by the marker event only once a read has
\* failed); when the upstream has completed and the caller has seen the
\* end of the stream, they are exactly those texts, one event per chunk.
C1_ChunkFidelity ==
    path = "relay" =>
        /\ upState # "failed" => IsPrefix(delivered, Decoded(upRead))
        /\ upState = "failed" =>
               IsPrefix(delivered,
                        Append(Decoded(upRead), Event(ERR_MARKER \o upErr.v)))
        /\ (upState = "done" /\ cstate = "ended") =>
               /\ delivered = Decoded(upRead)
               /\ Len(delivered) = Len(upRead)

\* Chunks "a", "bc", "é" were relayed as three events and the stream ended.
C1_Witness ==
    /\ path = "relay" /\ upState = "done" /\ cstate = "ended"
    /\ delivered = <<Event(T_a), Event(<<98, 99>>), Event(<<195, 169>>)>>

\* C2 as stated: a failed read gives exactly one event with the marker
\* prefix, the last of the stream, after the events of all chunks read;
\* a stream that completes normally carries no event with the marker
\* prefix.
C2_Original ==
    path = "relay" =>
        /\ (upState = "failed" /\ cstate = "ended") =>
               /\ delivered
                    = Append(Decoded(upRead), Event(ERR_MARKER \o upErr.v))
               /\ Cardinality({i \in 1..Len(delivered) :
                                  HasMarker(delivered[i])}) = 1
        /\ upState = "done" =>
               \A i \in 1..Len(delivered) : ~HasMarker(delivered[i])

\* C2, amended: once a read has failed the relay task has left its loop (it
\* reads no further chunk) and, with the caller connected, the stream is
\* the events of all chunks read followed by the one event the task adds,
\* marker and detail, after which it ends; the events of a stream that
\* completes normally are exactly the decoded chunk texts, so one begins
\* with the marker only where a chunk's own text does.
C2_MidStreamFailure ==
    path = "relay" =>
        /\ upState = "failed" =>
               /\ upErr.some
               /\ tpc \in {"send_err", "done"}
               /\ cstate \in {"none", "open"} =>
                      delivered \o chan \o InHand
                        = Append(Decoded(upRead), Event(ERR_MARKER \o upErr.v))
               /\ cstate = "ended" =>
                      delivered
                        = Append(Decoded(upRead), Event(ERR_MARKER \o upErr.v))
        /\ (upState = "done" /\ cstate = "ended") =>
               \A i \in 1..Len(delivered) :
                   /\ delivered[i] = Event(DecodeChunk(upRead[i]))
                   /\ HasMarker(delivered[i])
                        => IsPrefix(ERR_MARKER, upRead[i])

\* A read failed after two chunks or more; the caller got their events,
\* then the marker event, then the end of the stream.
C2_Witness ==
    /\ path = "relay" /\ upState = "failed" /\ cstate = "ended"
    /\ Len(upRead) >= 2
    /\ Len(delivered) = Len(upRead) + 1
    /\ HasMarker(delivered[Len(delivered)])

\* C3 as stated: after the consumer disconnects no further upstream chunk
\* is read.
C3_Original == [][cstate = "gone" => upRead' = upRead]_vars

\* C3, amended: after the consumer disconnects the relay task reads at most
\* one further chunk (the read it was suspended in), and ends at its first
\* send after the disconnect, silently: no event is queued or delivered
\* and nothing is raised.
C3_Disconnect ==
    cstate = "gone" =>
        /\ Len(upRead) <= goneAt + 1
        /\ Len(upRead) > goneAt => tpc \in {"send", "done"}
        /\ chan = <<>>
        /\ tpc # "panicked"
        /\ tpc \in {"send", "send_err"} => (ENABLED RelaySend \/ ENABLED RelaySendErr)
        /\ tpc = "done" => ~txAlive

\* The consumer disconnected while the task was in try_next(); the task
\* read one more chunk and ended at the send.
C3_Witness ==
    /\ cstate = "gone" /\ tpc = "done"
    /\ Len(upRead) = goneAt + 1
    /\ upState = "open"

\* C4 as stated: the channel holds at most its capacity, and while it is
\* full (the consumer connected) the relay task is suspended at the send.
C4_Original ==
    path = "relay" =>
        /\ Len(chan) <= ChannelCap
        /\ (Len(chan) = ChannelCap /\ cstate = "open" /\ tpc # "done")
               => tpc \in {"send", "send_err"}

\* C4, amended: the channel never holds more than its capacity (16); a
\* task that reaches a send while the channel is full and the consumer
\* connected is suspended there, so it is at most one chunk (the one in its
\* hand) ahead of the full channel; and with the consumer connected the
\* events delivered, queued and in hand are the decoded chunks read, in
\* order: none is dropped or reordered.
C4_Backpressure ==
    path = "relay" =>
        /\ cap = ChannelCap
        /\ Len(chan) <= ChannelCap
        /\ (tpc \in {"send", "send_err"} /\ Len(chan) = ChannelCap /\ rxOpen)
               => (~ENABLED RelaySend /\ ~ENABLED RelaySendErr)
        /\ rxOpen =>
               /\ Len(upRead) <= Len(delivered) + ChannelCap + 1
               /\ upState # "failed" =>
                      delivered \o chan \o InHand = Decoded(upRead)

\* The channel is full, the consumer connected and the task suspended at
\* the send with the seventeenth undelivered event in hand.
C4_Witness ==
    /\ path = "relay" /\ rxOpen /\ tpc = "send"
    /\ Len(chan) = ChannelCap
    /\ Len(delivered) >= 1
    /\ Len(upRead) = Len(delivered) + ChannelCap + 1

\* C5: pre-send failure.  When send() fails in chat_stream, no relay task
\* is started and no chunk read, and the caller's stream is the one event
\* "Error contacting Ollama API: <detail>" and then ends.
C5_PreSendFailure ==
    path = "send_err" =>
        /\ tpc = "none" /\ upRead = <<>>
        /\ hpc = "returned" /\ ~txAlive
        /\ upErr.some
        /\ cstate = "open" =>
               delivered \o chan = <<Event(ERR_CONTACT \o upErr.v)>>
        /\ cstate = "ended" => delivered = <<Event(ERR_CONTACT \o upErr.v)>>
        /\ cstate = "gone" =>
               IsPrefix(delivered, <<Event(ERR_CONTACT \o upErr.v)>>)

\* The send failed and the caller got the one event and the end of the
\* stream.
C5_Witness ==
    /\ path = "send_err" /\ cstate = "ended"
    /\ Len(delivered) = 1

\* C6 as stated: on a non-success status the stream's one event carries
\* the upstream's error body text.
C6_Original ==
    (path = "bad_status" /\ cstate = "ended")
        => delivered = <<Event(upBody)>>

\* C6, amended: on a non-success status no relay task is started and no
\* chunk read, and the caller's stream is one event and then ends; its
\* payload is the upstream's whole body text when the body could be read,
\* and "unknown error from ollama" when reading it failed.
C6_NonSuccessStatus ==
    path = "bad_status" =>
        /\ tpc = "none" /\ upRead = <<>>
        /\ ~upStatus
        /\ hpc = "returned" =>
               LET ev == Event(IF bodyText.some THEN upBody
                               ELSE UNKNOWN_ERROR)
               IN  /\ ~txAlive
                   /\ bodyText.some => bodyText.v = upBody
                   /\ cstate = "open" => delivered \o chan = <<ev>>
                   /\ cstate = "ended" => delivered = <<ev>>
                   /\ cstate = "gone" => IsPrefix(delivered, <<ev>>)

\* A non-success answer with a body; the caller got the body as one event
\* and the end of the stream.
C6_Witness ==
    /\ path = "bad_status" /\ cstate = "ended"
    /\ bodyText.some /\ upBody # <<>>
    /\ delivered = <<Event(upBody)>>

(***************************************************************************)
(* Properties of the buffered bridge.                                      *)
(***************************************************************************)
\* C7: error recovery.  A call to chat that has returned has returned a
\* ChatResp.  It ran a prefix of the stages send, text, parse, extract; if
\* it stopped after send, the send failed, the content is "Error
\* contacting Ollama API: <detail>" and no body was read; if it stopped
\* after text, reading the body failed, the content is "Failed to read
\* response body: <detail>" and nothing was parsed; after a failed stage no
\* later one ran.
C7_ErrorRecovery ==
    (endpoint = "chat" /\ hpc = "returned") =>
        /\ resp.some
        /\ stages \in {<<"send">>, <<"send", "text">>,
                       <<"send", "text", "parse">>,
                       <<"send", "text", "parse", "extract">>}
        /\ stages = <<"send">> =>
               /\ upErr.some
               /\ resp.v = ERR_CONTACT \o upErr.v
               /\ ~bodyText.some /\ ~json.some
        /\ stages = <<"send", "text">> =>
               /\ upErr.some
               /\ resp.v = ERR_READ_BODY \o upErr.v
               /\ ~bodyText.some /\ ~json.some
        /\ upErr.some => Len(stages) <= 2
        /\ ~upErr.some => bodyText.some

\* Reading the body failed and the call returned the text of that failure.
C7_Witness ==
    /\ endpoint = "chat" /\ hpc = "returned"
    /\ stages = <<"send", "text">>
    /\ resp.some /\ IsPrefix(ERR_READ_BODY, resp.v)

\* {"message":{"content":"hello"}}
B_HELLO == <<123, 34, 109, 101, 115, 115, 97, 103, 101, 34, 58, 123, 34, 99,
             111, 110, 116, 101, 110, 116, 34, 58, 34, 104, 101, 108, 108,
             111, 34, 125, 125>>
\* not json{{
B_NOT_JSON == <<110, 111, 116, 32, 106, 115, 111, 110, 123, 123>>
\* {"a": 1, "b": "text"}
B_NO_CONTENT == <<123, 34, 97, 34, 58, 32, 49, 44, 32, 34, 98, 34, 58, 32, 34,
                  116, 101, 120, 116, 34, 125>>

\* C8: raw-body fallback.  When the body was read, the content returned is
\* the body text unchanged if the body is not valid JSON or extraction
\* finds nothing in it, and the string extraction finds otherwise; the body
\* {"message":{"content":"hello"}} gives "hello", the bodies not json{{ and
\* {"a": 1, "b": "text"} give themselves, and so does a body the parser
\* refuses for a number that is no finite f64, {"content":"hi","x":1e999}.
C8_RawBodyFallback ==
    (endpoint = "chat" /\ hpc = "returned" /\ bodyText.some) =>
        LET parsed == from_str(bodyText.v)
            hit == extract_content(parsed.v)
        IN  /\ resp.some
            /\ json.some = parsed.ok
            /\ ~parsed.ok => resp.v = bodyText.v
            /\ (parsed.ok /\ ~hit.some) => resp.v = bodyText.v
            /\ (parsed.ok /\ hit.some) => resp.v = hit.v
            /\ bodyText.v = B_HELLO => (json.some /\ resp.v = T_hello)
            /\ bodyText.v = B_NOT_JSON => (~json.some /\ resp.v = B_NOT_JSON)
            /\ bodyText.v = B_NO_CONTENT
                   => (json.some /\ resp.v = B_NO_CONTENT)
            /\ bodyText.v = B_OUT_OF_RANGE
                   => (~json.some /\ resp.v = B_OUT_OF_RANGE)

\* The body was valid JSON in which extraction found nothing, and the
\* content returned is the body.
C8_Witness ==
    /\ endpoint = "chat" /\ hpc = "returned"
    /\ bodyText.some /\ json.some
    /\ bodyText.v = B_NO_CONTENT
    /\ resp.v = bodyText.v

(***************************************************************************)
(* Properties of both bridges.                                             *)
(***************************************************************************)
\* C9: exactly one outbound request.  From its first step on, and in every
\* outcome, a call has made exactly one POST to the inference server.
C9_OnePost ==
    /\ Len(posts) <= 1
    /\ hpc # "start" => Len(posts) = 1

\* A streaming call whose relay ended on a failed read has made one POST.
C9_Witness ==
    /\ path = "relay" /\ upState = "failed" /\ tpc = "done"
    /\ Len(posts) = 1

(***************************************************************************)
(* Properties of extract_content.                                          *)
(***************************************************************************)
\* The entries hold a string under key k.
HoldsString(entries, k) ==
    \E i \in 1..Len(entries) : entries[i][1] = k /\ entries[i][2].t = "str"

\* The string the entries hold under key k.
StringAt(entries, k) ==
    entries[CHOOSE i \in 1..Len(entries) : entries[i][1] = k][2].v

\* The entries hold under "message" an object with a string under
\* "content".
HoldsMessageContent(entries) ==
    \E i \in 1..Len(entries) :
        /\ entries[i][1] = KEY_MESSAGE
        /\ entries[i][2].t = "obj"
        /\ HoldsString(entries[i][2].v, KEY_CONTENT)

MessageContent(entries) ==
    StringAt(entries[CHOOSE i \in 1..Len(entries) :
                        entries[i][1] = KEY_MESSAGE][2].v, KEY_CONTENT)

\* C10: precedence at an object node.  Applied to an object, extract_content
\* returns the string under "content" if there is one (the empty string
\* too), whatever the other keys hold; else the string under "content" of
\* the object under "message" if there is one, whatever the other keys
\* hold; and only else what the search of the object's values gives: the
\* result for one of them, and nothing when every one gives nothing.
C10_Precedence ==
    (endpoint = "extract_content" /\ hpc = "returned" /\ json.v.t = "obj") =>
        LET entries == json.v.v
            results == {extract_content(entries[i][2]) :
                           i \in 1..Len(entries)}
        IN  IF HoldsString(entries, KEY_CONTENT)
            THEN found = Some(StringAt(entries, KEY_CONTENT))
            ELSE IF HoldsMessageContent(entries)
            THEN found = Some(MessageContent(entries))
            ELSE /\ found \in results \union {None}
                 /\ found = None <=> \A r \in results : ~r.some

\* An object whose "content" is no string, whose "message" holds the
\* string "m" under "content" and whose earlier entry "a" holds another
\* match: the result is "m".
C10_Witness ==
    /\ endpoint = "extract_content" /\ hpc = "returned"
    /\ json.v = JObj(<<
           <<T_a, JObj(<< <<T_a, JObj(<< <<KEY_CONTENT, JStr(T_foo)>> >>)>> >>)>>,
           <<KEY_CONTENT, JNum(T_1)>>,
           <<KEY_MESSAGE, JObj(<< <<KEY_CONTENT, JStr(T_m)>> >>)>> >>)
    /\ found = Some(T_m)

\* The value is an object that holds a string under "content".
IsCandidate(val) == val.t = "obj" /\ HoldsString(val.v, KEY_CONTENT)

\* The values directly under a value: an object's values, an array's
\* elements.
Children(val) ==
    IF val.t = "obj" THEN {val.v[i][2] : i \in 1..Len(val.v)}
    ELSE IF val.t = "arr" THEN {val.v[i] : i \in 1..Len(val.v)}
    ELSE {}

\* The strings held under "content" by the objects inside the value, at
\* any depth reached through objects and arrays.
RECURSIVE CandidateStrings(_)
CandidateStrings(val) ==
    (IF IsCandidate(val) THEN {StringAt(val.v, KEY_CONTENT)} ELSE {})
    \union UNION {CandidateStrings(ch) : ch \in Children(val)}

\* The bare string leaves of the value that are not held under "content".
RECURSIVE BareStrings(_)
BareStrings(val) ==
    IF val.t = "str" THEN {val.v}
    ELSE IF val.t = "obj"
         THEN UNION {BareStrings(val.v[i][2]) :
                        i \in {j \in 1..Len(val.v) :
                                  ~(val.v[j][1] = KEY_CONTENT
                                    /\ val.v[j][2].t = "str")}}
    ELSE IF val.t = "arr"
         THEN UNION {BareStrings(val.v[i]) : i \in 1..Len(val.v)}
    ELSE {}

\* C11: extraction candidates.  extract_content returns a result exactly
\* when the document holds, at some depth reached through objects and
\* arrays, an object with a string under "content", and what it returns is
\* such a string; a document without such an object (bare strings, numbers,
\* booleans, null only) gives nothing.  {"a": 1, "b": "text"} gives nothing,
\* {"foo": {"content": "nested"}} gives "nested" and
\* ["x", {"content": "found"}] gives "found".
C11_Candidates ==
    (endpoint = "extract_content" /\ hpc = "returned") =>
        /\ found.some <=> CandidateStrings(json.v) # {}
        /\ found.some => found.v \in CandidateStrings(json.v)
        /\ json.v = EX_NO_MATCH => found = None
        /\ json.v = EX_NESTED => found = Some(<<110, 101, 115, 116, 101, 100>>)
        /\ json.v = EX_ARRAY => found = Some(<<102, 111, 117, 110, 100>>)

\* An array with a bare string before an object with a "content" string:
\* the bare string is passed over.
C11_Witness ==
    /\ endpoint = "extract_content" /\ hpc = "returned"
    /\ json.v = EX_ARRAY
    /\ BareStrings(json.v) = {<<120>>}
    /\ found = Some(<<102, 111, 117, 110, 100>>)

(***************************************************************************)
(* Properties of normalize_model.                                          *)
(***************************************************************************)
\* C12: model normalization in both bridges.  The identifier in the
\* upstream request of either bridge is "llama3:8b" when the token is
\* absent or is "llama3.1"; the token with every '.' turned into ':' (and
\* nothing else changed) when it holds a '.' and no ':'; the token itself
\* otherwise.  There is always an identifier, and the two bridges' copies
\* of the function give the same one for the same token.
C12_Normalization ==
    (hpc = "await_send") =>
        LET m == req.model
            id == posts[Len(posts)].model
        IN  /\ Len(posts) >= 1
            /\ id \in Seq(0..255)
            /\ (~m.some \/ m.v = ALIAS_MODEL) => id = DEFAULT_MODEL
            /\ (m.some /\ m.v # ALIAS_MODEL
                   /\ Contains(m.v, DOT) /\ ~Contains(m.v, COLON)) =>
                  /\ Len(id) = Len(m.v)
                  /\ \A i \in 1..Len(id) :
                        id[i] = IF m.v[i] = DOT THEN COLON ELSE m.v[i]
            /\ (m.some /\ m.v # ALIAS_MODEL
                   /\ ~(Contains(m.v, DOT) /\ ~Contains(m.v, COLON))) =>
                  id = m.v
            /\ chat_normalize_model(m) = chat_stream_normalize_model(m)

\* The streaming bridge sent "m:m:" for the token "m.m.".
C12_Witness ==
    /\ endpoint = "chat_stream" /\ hpc = "await_send" /\ Len(posts) = 1
    /\ req.model = Some(<<109, 46, 109, 46>>)
    /\ posts[1].model = <<109, 58, 109, 58>>

\* C13: the normalizer is idempotent.  A call whose token is the
\* identifier an earlier call was sent with is sent with the same
\* identifier: normalize(normalize(x)) = normalize(x), for the absent
\* token, the alias and the dotted tokens too.
C13_Idempotence ==
    (Len(posts) = 2) => posts[2].model = posts[1].model

\* The alias was normalized to "llama3:8b" and that again to "llama3:8b".
C13_Witness ==
    /\ endpoint = "chat" /\ Len(posts) = 2
    /\ posts[1].model = DEFAULT_MODEL
    /\ req.model = Some(DEFAULT_MODEL)
    /\ posts[2].model = DEFAULT_MODEL

(***************************************************************************)
(* Properties of both bridges.                                             *)
(***************************************************************************)
\* The upstream request of a call with inbound request r.
UpstreamRequest(r) ==
    IF endpoint = "chat" THEN ChatBody(r) ELSE ChatStreamBody(r)

\* The content a returned call of chat carries, as the upstream's
\* behaviour gives it: the failure of the send, of the body read, or the
\* body.
CallerContent ==
    IF upErr.some
    THEN (IF stages = <<"send">> THEN ContactError(upErr.v)
          ELSE ReadBodyError(upErr.v))
    ELSE ContentOf(IF from_str(bodyText.v).ok THEN from_str(bodyText.v).v
                   ELSE JStr(<<>>), bodyText.v)

\* The events the stream of a call of chat_stream is made of, as the
\* upstream's behaviour gives them.
CallerEvents ==
    IF path = "send_err" THEN <<Event(ContactError(upErr.v))>>
    ELSE IF path = "bad_status"
         THEN <<Event(IF bodyText.some THEN upBody ELSE UNKNOWN_ERROR)>>
    ELSE IF path = "relay"
         THEN Decoded(upRead)
              \o (IF upState = "failed" THEN <<ErrEvent(upErr.v)>> ELSE <<>>)
    ELSE <<>>

\* C14: the endpoint selects the mode.  The upstream request is the one
\* built from the inbound request with any value of its `stream` field
\* (absent, true, false) in place of its own, and its `stream` flag is
\* false from chat and true from chat_stream.  What the caller gets is
\* given by the upstream's behaviour alone: the content of chat's response
\* by the failure or the body read, the events of chat_stream's response by
\* the failure, the error body or the chunks read.
C14_StreamIgnored ==
    /\ Len(posts) >= 1 =>
           /\ \A st \in ReqStreams :
                  posts[1] = UpstreamRequest([req EXCEPT !.stream = st])
           /\ posts[1].stream = (endpoint = "chat_stream")
    /\ (endpoint = "chat" /\ hpc = "returned") => resp = Some(CallerContent)
    /\ (endpoint = "chat_stream" /\ hpc = "returned") =>
           /\ IsPrefix(delivered, CallerEvents)
           /\ cstate = "ended" => delivered = CallerEvents

\* A call of chat_stream with `stream`: false was sent upstream with
\* `stream`: true and relayed two chunks to the end.
C14_Witness ==
    /\ endpoint = "chat_stream" /\ req.stream = SomeBool(FALSE)
    /\ Len(posts) = 1 /\ posts[1].stream = TRUE
    /\ path = "relay" /\ cstate = "ended" /\ Len(delivered) = 2

(***************************************************************************)
(* Termination of the relay task.                                          *)
(***************************************************************************)
\* The task has ended for one of its three causes.
TerminationCause ==
    \/ upState = "done"
    \/ upState = "failed"
    \/ cstate = "gone"

\* C15 as stated: once the upstream has completed, a read has failed or a
\* send has failed, the task does end.
C15_Original ==
    (path = "relay" /\ upState # "open") ~> (tpc = "done")

\* C15, amended: the relay task ends only for one of three causes: the
\* upstream completed, a read failed, or a send failed because the consumer
\* disconnected.  It ends at once when the upstream completes and when a
\* send fails; after a failed read it ends when its send of the marker
\* event ends, which takes room in the channel or a consumer that has
\* disconnected (with a full channel and a connected consumer that takes
\* nothing it stays suspended).  Ending, it drops its sender, so that a
\* connected caller can see the end of the stream once the channel is
\* empty.
C15_Termination ==
    /\ [](tpc = "done" => (TerminationCause /\ ~txAlive))
    /\ []((tpc = "done" /\ upState = "open") => cstate = "gone")
    /\ [](upState = "done" => tpc = "done")
    /\ []((upState = "failed" /\ tpc # "done") =>
            (tpc = "send_err" /\ pending = ErrEvent(upErr.v)))
    /\ [][(tpc = "send" /\ ~rxOpen /\ tpc' # tpc) => tpc' = "done"]_vars
    /\ (upState = "failed" /\ (~rxOpen \/ Len(chan) < cap)) ~> (tpc = "done")
    /\ []((tpc = "done" /\ cstate = "open" /\ chan = <<>>) =>
            ENABLED ConsumerEnd)

\* A read failed with the channel full; the consumer took an event, the
\* marker was queued and the task ended.
C15_Witness ==
    /\ path = "relay" /\ upState = "failed" /\ tpc = "done"
    /\ Len(upRead) = ChannelCap
    /\ Len(chan) = ChannelCap /\ Len(delivered) = 1
    /\ chan[Len(chan)] = ErrEvent(upErr.v)
    /\ cstate = "open" /\ ~txAlive

(***************************************************************************)
(* Progress of the relay.                                                  *)
(***************************************************************************)
\* The caller has got the event of the k-th chunk read.
DeliveredChunk(k) ==
    IF Len(delivered) >= k /\ Len(upRead) >= k
    THEN delivered[k] = Event(DecodeChunk(upRead[k]))
    ELSE FALSE

\* C16: incremental delivery.  The handler, once it has spawned the relay
\* task, returns the stream whatever the upstream body does (it waits for
\* no chunk and not for the end of the body).  Under the runtime's
\* scheduling and with a caller that keeps consuming, each chunk read is in
\* the end delivered as its event, unless the caller disconnects, also
\* when the upstream yields nothing more after it: no later chunk and no
\* end of the body is waited for.
C16_Incremental ==
    /\ [](hpc = "spawned" => ENABLED StreamReturn)
    /\ (hpc = "spawned") ~> (hpc = "returned")
    /\ \A k \in 1..MaxChunks :
           (path = "relay" /\ Len(upRead) >= k) ~>
               (cstate = "gone" \/ DeliveredChunk(k))

\* Two chunks were delivered while the upstream body was still open and
\* the task was waiting for a third.
C16_Witness ==
    /\ path = "relay" /\ upState = "open" /\ tpc = "next"
    /\ cstate = "open" /\ Len(upRead) = 2
    /\ DeliveredChunk(1) /\ DeliveredChunk(2)

(***************************************************************************)
(* The order of extract_content's search.                                  *)
(***************************************************************************)
\* The values searched one after the other at a node: an object's values in
\* the object's order, an array's elements in index order.
Searched(val) ==
    IF val.t = "obj" THEN MapValues(val.v)
    ELSE IF val.t = "arr" THEN val.v
    ELSE <<>>

\* The node has a direct match: a string under "content", or under
\* "content" of the object under "message".
DirectMatch(val) ==
    /\ val.t = "obj"
    /\ (HoldsString(val.v, KEY_CONTENT) \/ HoldsMessageContent(val.v))

\* The places of Searched(val) that hold a match at some depth.
Matching(val) ==
    {i \in 1..Len(Searched(val)) : CandidateStrings(Searched(val)[i]) # {}}

\* "deep", "shallow"
T_deep == <<100, 101, 101, 112>>
T_shallow == <<115, 104, 97, 108, 108, 111, 119>>

\* C17: traversal order.  At an object without a direct match and at an
\* array, the result is the result for the first value, in the object's
\* order or in index order, that holds a match at any depth: a string
\* inside that value, whatever matches later values hold and however
\* shallow they are.
\* [{"a":{"b":{"content":"deep"}}}, {"content":"shallow"}] gives "deep".
C17_TraversalOrder ==
    (endpoint = "extract_content" /\ hpc = "returned"
       /\ ~DirectMatch(json.v) /\ Matching(json.v) # {}) =>
        LET first == CHOOSE i \in Matching(json.v) :
                         \A j \in Matching(json.v) : i <= j
            winner == Searched(json.v)[first]
        IN  /\ found = extract_content(winner)
            /\ found.some
            /\ found.v \in CandidateStrings(winner)
            /\ json.v = EX_DEEP => found = Some(T_deep)

\* The example: the match two levels down in the first element wins over
\* the match at the top of the second.
C17_Witness ==
    /\ endpoint = "extract_content" /\ hpc = "returned"
    /\ json.v = EX_DEEP
    /\ Matching(json.v) = {1, 2}
    /\ extract_content(Searched(json.v)[2]) = Some(T_shallow)
    /\ found = Some(T_deep)

(***************************************************************************)
(* Chunks that are not text.                                               *)
(***************************************************************************)
\* The events of the stream so far, with a consumer that has not
\* disconnected: those delivered, those queued, and the one in the task's
\* hand.
AllEvents == delivered \o chan \o InHand

\* The places of the chunks read that are not valid UTF-8.
Undecodable == {i \in 1..Len(upRead) : ~from_utf8(upRead[i]).ok}

\* C18: undecodable chunk tolerance.  In a relay whose consumer has not
\* disconnected, a chunk that is not valid UTF-8 has, in its own place,
\* one event with the empty payload (no marker event); no error is raised
\* for it and the task does not stop: while the upstream is open the task
\* is reading or sending and there are as many events as chunks read, and
\* a stream relayed to its end has one event for each chunk.
C18_UndecodableChunk ==
    (path = "relay" /\ cstate # "gone") =>
        /\ \A i \in Undecodable :
               /\ i <= Len(AllEvents)
               /\ AllEvents[i] = Event(<<>>)
        /\ upState = "open" =>
               /\ tpc \in {"next", "send"}
               /\ ~upErr.some
               /\ Len(AllEvents) = Len(upRead)
        /\ (upState = "done" /\ cstate = "ended") =>
               Len(delivered) = Len(upRead)

\* The first chunk was not UTF-8; it and the chunk after it were relayed
\* as an empty event and "bc", and the stream ended.
C18_Witness ==
    /\ path = "relay" /\ upState = "done" /\ cstate = "ended"
    /\ upRead = << <<195>>, <<98, 99>> >>
    /\ delivered = <<Event(<<>>), Event(<<98, 99>>)>>

(***************************************************************************)
(* The relay task after a disconnect.                                      *)
(***************************************************************************)
\* C19: bounded work after a disconnect.  The disconnect itself changes
\* nothing of the task: the task is where it was.  In every step after it:
\* nothing is delivered and nothing is queued (the events that were in the
\* channel are lost); a chunk is read only by a task that was in try_next()
\* at the disconnect and has read none since; a task that leaves a send
\* has ended; and a task at a send can end at once, whatever the channel
\* held.
C19_BoundedWork ==
    [][/\ (cstate = "open" /\ cstate' = "gone") =>
            /\ tpc' = tpc /\ upRead' = upRead
            /\ delivered' = delivered /\ chan' = <<>>
       /\ cstate = "gone" =>
            /\ delivered' = delivered
            /\ chan' = <<>>
            /\ upRead' # upRead =>
                   (tpc = "next" /\ Len(upRead) = goneAt /\ tpc' = "send")
            /\ (tpc \in {"send", "send_err"} /\ tpc' # tpc) => tpc' = "done"
            /\ tpc = "done" => tpc' = "done"
            /\ tpc = "send" => ENABLED RelaySend]_vars

\* The consumer disconnected while the task was suspended in a send on the
\* full channel; the task ended there, the sixteen queued events lost.
C19_Witness ==
    /\ cstate = "gone" /\ tpc = "done" /\ upState = "open"
    /\ goneAt = ChannelCap + 1 /\ Len(upRead) = goneAt
    /\ delivered = <<>> /\ chan = <<>>

(***************************************************************************)
(* The upstream's status.                                                  *)
(***************************************************************************)
\* C20: the buffered bridge ignores the upstream's status.  A response
\* whose status is not a success goes the way of any response in chat: its
\* body is awaited (the read may end either way); once read it is parsed,
\* and the content returned is the extracted string, or the body itself
\* when it is no JSON or nothing is found in it, the same as for that body
\* with a success status.  chat_stream branches on the status: a relay
\* runs only for a success, and a non-success status gives the one-event
\* stream.
C20_StatusIgnored ==
    /\ (endpoint = "chat" /\ ~upStatus) =>
           /\ hpc \in {"await_text", "returned"}
           /\ hpc = "await_text" =>
                  \A e \in ErrDetails : ENABLED ChatTextErr(e)
           /\ (hpc = "returned" /\ bodyText.some) =>
                  LET parsed == from_str(bodyText.v)
                  IN  /\ bodyText.v = upBody
                      /\ stages = IF parsed.ok
                                  THEN <<"send", "text", "parse", "extract">>
                                  ELSE <<"send", "text", "parse">>
                      /\ resp = Some(IF parsed.ok
                                     THEN ContentOf(parsed.v, bodyText.v)
                                     ELSE bodyText.v)
    /\ endpoint = "chat_stream" =>
           /\ ~upStatus => (path = "bad_status" /\ tpc = "none")
           /\ path = "relay" => upStatus

\* A non-success response with the body {"message":{"content":"hello"}}:
\* chat returned "hello".
C20_Witness ==
    /\ endpoint = "chat" /\ hpc = "returned" /\ ~upStatus
    /\ bodyText = Some(B_HELLO)
    /\ resp = Some(T_hello)

=============================================================================
